---- MODULE Spec2Model ----
(***************************************************************************)
(* Model of the sharded causal transformer of transformer_shard.py and of  *)
(* the example driver tpuv38_example.py.                                   *)
(*                                                                         *)
(* Numbers.  Tensor entries are exact rationals <<n, d>> (d > 0, lowest    *)
(* terms).  The arithmetic of the program (+, /, mean) is modelled exactly;*)
(* the only rounding that is modelled is the explicit dtype conversion     *)
(* x.astype(bfloat16), which rounds to the nearest point of the narrow     *)
(* grid (the integers), ties to even.                                      *)
(***************************************************************************)
EXTENDS Integers, Sequences, FiniteSets, Bags, TLC

VARIABLES tpu_state, cpu_state, last_call, pending, base, cpu_hist, trains,
          calls, pc, i, corpus, arg, res

vars == <<tpu_state, cpu_state, last_call, pending, base, cpu_hist, trains,
          calls, pc, i, corpus, arg, res>>

\* Total number of train/update calls explored after initialize.
MaxCalls == 4

-----------------------------------------------------------------------------
(* Exact rational arithmetic                                               *)

Abs(n) == IF n < 0 THEN -n ELSE n

RECURSIVE GCD(_, _)
GCD(a, b) == IF b = 0 THEN a ELSE GCD(b, a % b)

RNorm(n, d) ==
    LET g == GCD(Abs(n), Abs(d))
        s == IF d < 0 THEN -1 ELSE 1
    IN  <<(s * n) \div g, (s * d) \div g>>

RInt(n) == <<n, 1>>
RAdd(a, b) == RNorm(a[1] * b[2] + b[1] * a[2], a[2] * b[2])
RNeg(a) == <<-a[1], a[2]>>
RMul(a, b) == RNorm(a[1] * b[1], a[2] * b[2])
RDivInt(a, k) == RNorm(a[1], a[2] * k)

RECURSIVE RSum(_)
RSum(s) == IF s = <<>> THEN RInt(0) ELSE RAdd(Head(s), RSum(Tail(s)))

-----------------------------------------------------------------------------
(* Precision Caster: to_f32 / to_bf16                                      *)

\* x.astype(jnp.bfloat16) on a float32 value: nearest narrow value, ties to even.
RoundNarrow(r) ==
    LET q   == r[1] \div r[2]
        rem == r[1] - q * r[2]
    IN  IF 2 * rem < r[2] THEN RInt(q)
        ELSE IF 2 * rem > r[2] THEN RInt(q + 1)
        ELSE IF q % 2 = 0 THEN RInt(q) ELSE RInt(q + 1)

\* x.astype(jnp.float32) on a bfloat16 value: every narrow value is a wide value.
Widen(r) == r

to_f32_leaf(x) ==
    IF x.dtype = "bfloat16" THEN [dtype |-> "float32", val |-> Widen(x.val)] ELSE x

to_bf16_leaf(x) ==
    IF x.dtype = "float32" THEN [dtype |-> "bfloat16", val |-> RoundNarrow(x.val)] ELSE x

\* jax.tree_map over the leaves of the tree
to_f32(t) == [k \in DOMAIN t |-> to_f32_leaf(t[k])]

to_bf16(t) == [k \in DOMAIN t |-> to_bf16_leaf(t[k])]

zeros_like(a) == [dtype |-> a.dtype, val |-> RInt(0)]

\* jax.tree_map(lambda a: jnp.zeros_like(a), t)
tree_zeros_like(t) == [k \in DOMAIN t |-> zeros_like(t[k])]

\* dtype of a binary arithmetic result (jax type promotion of the two floats)
Promote(a, b) == IF a = "float32" \/ b = "float32" THEN "float32" ELSE "bfloat16"

LeafAdd(a, b) == [dtype |-> Promote(a.dtype, b.dtype), val |-> RAdd(a.val, b.val)]

tree_multimap_add(s, t) == [k \in DOMAIN s |-> LeafAdd(s[k], t[k])]

-----------------------------------------------------------------------------
(* Distributed Training State: CausalTransformer                           *)

ParamNames == {"w", "b"}

\* The batches the loader can hand to train: one or two entries on the
\* "batch" axis, each entry a pair <<context, target>>.
Batches == {<<<<1, 0>>>>, <<<<2, 1>>>>, <<<<1, 0>>, <<1, 3>>>>, <<<<2, 1>>, <<1, 3>>>>}

\* Values the parameter initialisers can produce.  The parameters are created
\* in the dtype of the activations, which is bfloat16 from the embedding's
\* one-hot on (lines 29-33), so every initial value lies on the narrow grid.
InitVals == {0, 1}

\* jax.value_and_grad(train_loss_fn)(params, ctx, tgt)[1] for one entry of the
\* "batch" axis.  The Model Stack is stood in for by the scalar model
\* loss = (w * ctx + b - tgt)^2 / 2; the gradient has the dtype of params.
SampleGrad(params, s) ==
    LET err == RAdd(RAdd(RMul(params["w"].val, RInt(s[1])), params["b"].val),
                    RInt(-s[2]))
    IN  [k \in ParamNames |->
            [dtype |-> params[k].dtype,
             val   |-> IF k = "w" THEN RMul(err, RInt(s[1])) ELSE err]]

\* jax.lax.pmean(grad, "batch"): the mean over the entries of the batch axis.
pmean_batch(grads) ==
    [k \in ParamNames |->
        [dtype |-> grads[1][k].dtype,
         val   |-> RDivInt(RSum([j \in 1..Len(grads) |-> grads[j][k].val]),
                           Len(grads))]]

\* The inner train(state, ctx, tgt) that train_xmap runs.
TrainOverwriteGrad(state, batch) ==
    LET grad == pmean_batch([j \in 1..Len(batch) |->
                                SampleGrad(to_bf16(state.params), batch[j])])
    IN  [params |-> state.params, step |-> state.step + 1, grad |-> grad]

TrainTouchParams(state, batch) ==
    LET grad == pmean_batch([j \in 1..Len(batch) |->
                                SampleGrad(to_bf16(state.params), batch[j])])
    IN  [params |-> tree_multimap_add(state.params, grad),
         step   |-> state.step + 1,
         grad   |-> tree_multimap_add(state.grad, grad)]

train_fn(state, batch) ==
    LET grad == pmean_batch([j \in 1..Len(batch) |->
                                SampleGrad(to_bf16(state.params), batch[j])])
    IN  [params |-> state.params,
         step   |-> state.step + 1,
         grad   |-> tree_multimap_add(state.grad, grad)]

\* The inner init(key, x): params from the initialisers, step 0, zero grad.
init_fn(w0, b0) ==
    LET params == [k \in ParamNames |->
                     [dtype |-> "bfloat16",
                      val   |-> RInt(IF k = "w" THEN w0 ELSE b0)]]
    IN  [params |-> params, step |-> 0, grad |-> tree_zeros_like(params)]

SetKeepOldParams(new_params, old_state) ==
    [params |-> old_state.params,
     step   |-> old_state.step,
     grad   |-> tree_zeros_like(old_state.grad)]

SetResetStep(new_params, old_state) ==
    [params |-> to_bf16(new_params),
     step   |-> 0,
     grad   |-> tree_zeros_like(old_state.grad)]

\* The inner set_tpu_state(new_params, old_state).
set_tpu_state(new_params, old_state) ==
    [params |-> to_bf16(new_params),
     step   |-> old_state.step,
     grad   |-> tree_zeros_like(old_state.grad)]

\* The optimizer handed to the constructor (an optax GradientTransformation):
\* a trace of past gradients, scaled by a negative learning rate of 1/2.
optimizer_init(params) == [trace |-> [k \in DOMAIN params |-> RInt(0)]]

optimizer_update(grad, opt_state) ==
    LET trace == [k \in DOMAIN grad |->
                    RAdd(grad[k].val, RDivInt(opt_state.trace[k], 2))]
    IN  [updates   |-> [k \in DOMAIN grad |->
                          [dtype |-> "float32", val |-> RDivInt(RNeg(trace[k]), 2)]],
         opt_state |-> [trace |-> trace]]

\* optax.apply_updates(params, updates): p + u in the dtype of p.
apply_updates(params, updates) ==
    [k \in DOMAIN params |->
        [dtype |-> params[k].dtype, val |-> RAdd(params[k].val, updates[k].val)]]

\* cpu_init_jit(tpu_state)
cpu_init_jit(tpu) ==
    LET fp32_params == to_f32(tpu.params)
    IN  [opt_state |-> optimizer_init(fp32_params), params |-> fp32_params]

\* cpu_update_jit(cpu_state, tpu_state, grad_acc_no)
cpu_update_jit(cpu, tpu, grad_acc_no) ==
    LET grad == [k \in DOMAIN tpu.grad |->
                    [dtype |-> tpu.grad[k].dtype,
                     val   |-> RDivInt(tpu.grad[k].val, grad_acc_no)]]
        r    == optimizer_update(grad, cpu.opt_state)
    IN  [opt_state |-> r.opt_state, params |-> apply_updates(cpu.params, r.updates)]

AccCounts == 1..MaxCalls

NoDriver == pc = "none" /\ i = 0 /\ corpus = <<>>

NoLayerCall == arg = [kind |-> "none"] /\ res = [kind |-> "none"]

\* CausalTransformer.__init__
Init ==
    /\ \E w0 \in InitVals, b0 \in InitVals :
          /\ tpu_state = init_fn(w0, b0)
          /\ cpu_state = cpu_init_jit(init_fn(w0, b0))
    /\ last_call = [op |-> "init", n |-> 0]
    /\ pending = <<>>
    /\ base = [tpu |-> tpu_state, cpu |-> cpu_state]
    /\ cpu_hist = {cpu_state.params}
    /\ trains = 0
    /\ calls = 0
    /\ NoDriver
    /\ NoLayerCall

\* Bookkeeping of the accumulation window: the state at its start and the
\* batches trained in it (observation only, not program state).
NoteTrain(batch) ==
    /\ last_call' = [op |-> "train", n |-> 0]
    /\ pending' = IF last_call.op = "update" THEN <<batch>> ELSE Append(pending, batch)
    /\ base' = IF last_call.op = "update"
               THEN [tpu |-> tpu_state, cpu |-> cpu_state] ELSE base
    /\ trains' = trains + 1
    /\ calls' = calls + 1

NoteUpdate(n) ==
    /\ last_call' = [op |-> "update", n |-> n]
    /\ pending' = IF last_call.op = "update" THEN <<>> ELSE pending
    /\ base' = IF last_call.op = "update"
               THEN [tpu |-> tpu_state, cpu |-> cpu_state] ELSE base
    /\ trains' = trains
    /\ calls' = calls + 1

\* CausalTransformer.train(sample)
DoTrain(batch) ==
    /\ tpu_state' = train_fn(tpu_state, batch)
    /\ cpu_state' = cpu_state
    /\ cpu_hist' = cpu_hist
    /\ NoteTrain(batch)

\* CausalTransformer.update(grad_acc_no)
DoUpdate(n) ==
    /\ cpu_state' = cpu_update_jit(cpu_state, tpu_state, n)
    /\ tpu_state' = set_tpu_state(cpu_state'.params, tpu_state)
    /\ cpu_hist' = cpu_hist \cup {cpu_state'.params}
    /\ NoteUpdate(n)

Train ==
    /\ calls < MaxCalls
    /\ \E batch \in Batches : DoTrain(batch)
    /\ UNCHANGED <<pc, i, corpus, arg, res>>

Update ==
    /\ calls < MaxCalls
    /\ \E n \in AccCounts : DoUpdate(n)
    /\ UNCHANGED <<pc, i, corpus, arg, res>>

Next == Train \/ Update

Spec == Init /\ [][Next]_vars

-----------------------------------------------------------------------------
(* The example driver, tpuv38_example.py                                   *)

it == 50
UpdateIters == 10
LoopAccNo == 10
WarmAccNo == 1

\* The text the loader reads: a fixed file, read in order and wrapping round.
Corpora == {<<a, b>> : a \in Batches, b \in Batches}

\* loader.get_samples()
get_samples == corpus[(trains % Len(corpus)) + 1]

DriverInit ==
    /\ \E w0 \in InitVals, b0 \in InitVals :
          /\ tpu_state = init_fn(w0, b0)
          /\ cpu_state = cpu_init_jit(init_fn(w0, b0))
    /\ last_call = [op |-> "init", n |-> 0]
    /\ pending = <<>>
    /\ base = [tpu |-> tpu_state, cpu |-> cpu_state]
    /\ cpu_hist = {cpu_state.params}
    /\ trains = 0
    /\ calls = 0
    /\ pc = "compile_train"
    /\ i = 0
    /\ corpus \in Corpora
    /\ NoLayerCall

\* lines 48-49: the first train call
DriverCompileTrain ==
    /\ pc = "compile_train"
    /\ DoTrain(get_samples)
    /\ pc' = "compile_update"
    /\ UNCHANGED <<i, corpus, arg, res>>

\* line 53: c.update(1)
DriverCompileUpdate ==
    /\ pc = "compile_update"
    /\ DoUpdate(WarmAccNo)
    /\ pc' = "loop"
    /\ UNCHANGED <<i, corpus, arg, res>>

\* lines 57-61: one iteration's train call
DriverLoopTrain ==
    /\ pc = "loop"
    /\ i < it
    /\ DoTrain(get_samples)
    /\ pc' = IF i \in 0..(UpdateIters - 1) THEN "loop_update" ELSE "loop"
    /\ i' = IF i \in 0..(UpdateIters - 1) THEN i ELSE i + 1
    /\ UNCHANGED <<corpus, arg, res>>

\* lines 63-66: if i in range(10): c.update(10)
DriverLoopUpdate ==
    /\ pc = "loop_update"
    /\ DoUpdate(LoopAccNo)
    /\ pc' = "loop"
    /\ i' = i + 1
    /\ UNCHANGED <<corpus, arg, res>>

\* line 67: the loop is exhausted
DriverFinish ==
    /\ pc = "loop"
    /\ i = it
    /\ pc' = "done"
    /\ UNCHANGED <<tpu_state, cpu_state, last_call, pending, base, cpu_hist,
                   trains, calls, i, corpus, arg, res>>

DriverNext ==
    \/ DriverCompileTrain
    \/ DriverCompileUpdate
    \/ DriverLoopTrain
    \/ DriverLoopUpdate
    \/ DriverFinish

SpecDriver == DriverInit /\ [][DriverNext]_vars

-----------------------------------------------------------------------------
(* Properties of the Distributed Training State                            *)

\* C1: the accelerator-resident params are the narrow cast of the host
\* params of the current or of an earlier state, and right after an update
\* they are the narrow cast of the host params that update produced.
ParamsAreCastOfHost ==
    /\ \E h \in cpu_hist : tpu_state.params = to_bf16(h)
    /\ last_call.op = "update" => tpu_state.params = to_bf16(cpu_state.params)

\* An update whose new host params are off the narrow grid, so the cast rounds.
WitnessLossyResync ==
    /\ last_call.op = "update"
    /\ to_f32(tpu_state.params) # cpu_state.params
    /\ tpu_state.params # base.tpu.params

RECURSIVE Concat(_)
Concat(bs) == IF bs = <<>> THEN <<>> ELSE Head(bs) \o Concat(Tail(bs))

\* An update has just closed a window of k >= 1 equal-size batches and was
\* passed k.
WindowClosed ==
    /\ last_call.op = "update"
    /\ Len(pending) >= 1
    /\ last_call.n = Len(pending)
    /\ \A j \in 1..Len(pending) : Len(pending[j]) = Len(pending[1])

\* The reference run from the window's start: one train on the concatenation
\* of the window's batches, then update(1).
RefTpuTrained == train_fn(base.tpu, Concat(pending))
RefCpu == cpu_update_jit(base.cpu, RefTpuTrained, 1)
RefTpu == set_tpu_state(RefCpu.params, RefTpuTrained)

\* C4: from a zero accumulator, k trains on equal-size batches followed by
\* update(k) leave the same host state (params and optimizer state) and the
\* same accelerator params as one train on the concatenation and update(1).
AccumulationEquivalence ==
    WindowClosed =>
        /\ \A k \in ParamNames : base.tpu.grad[k].val = RInt(0)
        /\ cpu_state = RefCpu
        /\ tpu_state.params = RefTpu.params
        /\ tpu_state.grad = RefTpu.grad

WitnessAccumulatedWindow ==
    /\ WindowClosed
    /\ Len(pending) >= 2
    /\ pending[1] # pending[2]
    /\ cpu_state.params # base.cpu.params

\* C8: the step counter equals the number of train calls since initialize
\* (0 after initialize, +1 per train, untouched by update).
StepCountsTrains == tpu_state.step = trains

WitnessStepAfterUpdate ==
    /\ last_call.op = "update"
    /\ trains >= 2
    /\ tpu_state.step = trains

\* C9: a train call leaves the accelerator params and the whole host state
\* unchanged; the host state changes only in update.
TrainFrame ==
    /\ [][last_call'.op = "train" =>
            /\ tpu_state'.params = tpu_state.params
            /\ cpu_state' = cpu_state]_vars
    /\ [][cpu_state' # cpu_state => last_call'.op = "update"]_vars

WitnessTrainAfterUpdate ==
    /\ last_call.op = "train"
    /\ Cardinality(cpu_hist) >= 2
    /\ \E k \in ParamNames : tpu_state.grad[k].val # RInt(0)
    /\ tpu_state.params = to_bf16(cpu_state.params)

\* C10: every update call of the driver is passed the number of train calls
\* made since the previous update (or since initialize).
DriverPassesTrueCount ==
    last_call.op = "update" => last_call.n = Len(pending)

-----------------------------------------------------------------------------
(* The sharded layers, as pure functions of one call's inputs.  arg holds  *)
(* the inputs of a call and res what the call produced.                    *)

\* Vocabulary size (in_dim of EmbeddingShard, out_dim of ProjectionShard).
Vocab == 4

\* Longest sequence handed to a transformer block.
MaxSeq == 2

\* The shard counts the constructors' assertions accept: in_dim % shards = 0.
ShardCounts == {S \in 1..Vocab : Vocab % S = 0}

ShardIds(S) == 0..(S - 1)

\* sum of f[0] .. f[n-1]
RECURSIVE SumTo(_, _)
SumTo(f, n) == IF n = 0 THEN 0 ELSE f[n - 1] + SumTo(f, n - 1)

RECURSIVE MaxTo(_, _)
MaxTo(f, n) ==
    IF n = 1 THEN f[0]
    ELSE LET m == MaxTo(f, n - 1) IN IF f[n - 1] > m THEN f[n - 1] ELSE m

\* ---- EmbeddingShard ----

\* lines 30-33: (shard_index.reshape(1, -1) == x.reshape(-1, 1)).astype(dtype)
EmbeddingShard_onehot(axis_index, dim_per_shard, x) ==
    LET shard_start_index == axis_index * dim_per_shard
        shard_index == [j \in 0..(dim_per_shard - 1) |-> j + shard_start_index]
    IN  [t \in 1..Len(x) |->
            [j \in 0..(dim_per_shard - 1) |-> IF shard_index[j] = x[t] THEN 1 ELSE 0]]

\* hk.Linear(out_dim) on one row: row . w + b (with_bias defaults to True)
Linear(row, w, b, n) ==
    [d \in 1..Len(b) |-> SumTo([j \in 0..(n - 1) |-> row[j] * w[j][d]], n) + b[d]]

EmbedPsum(proj_out, S) ==
    [t \in DOMAIN proj_out[0] |->
        [d \in DOMAIN proj_out[0][t] |->
            RInt(SumTo([s \in ShardIds(S) |-> proj_out[s][t][d]], S))]]

\* jax.lax.pmean(proj_out, "shard")
pmean_shard(proj_out, S) ==
    [t \in DOMAIN proj_out[0] |->
        [d \in DOMAIN proj_out[0][t] |->
            RDivInt(RInt(SumTo([s \in ShardIds(S) |-> proj_out[s][t][d]], S)), S)]]

\* EmbeddingShard.__call__ on every shard of the "shard" axis
EmbeddingShard_call(a) ==
    LET dim_per_shard == Vocab \div a.shards
        onehot == [s \in ShardIds(a.shards) |->
                      EmbeddingShard_onehot(s, dim_per_shard, a.x)]
        proj_out == [s \in ShardIds(a.shards) |->
                        [t \in 1..Len(a.x) |->
                            Linear(onehot[s][t], a.w[s], a.b[s], dim_per_shard)]]
    IN  [kind |-> "embed", onehot |-> onehot,
         out |-> pmean_shard(proj_out, a.shards)]

\* ---- ProjectionShard.loss ----
\* exp and log are kept symbolic.  A sum of exponentials exp(e1) + ... + exp(ek)
\* of integers is the bag of its exponents (two such sums are equal exactly
\* when the bags are), and lin + c * log(Z) is the record [lin, c, Z].

RECURSIVE BagTo(_, _)
BagTo(f, n) == IF n = 0 THEN EmptyBag ELSE SetToBag({f[n - 1]}) (+) BagTo(f, n - 1)

LLScale(k, v) ==
    [lin |-> k * v.lin, c |-> k * v.c, Z |-> IF k * v.c = 0 THEN EmptyBag ELSE v.Z]

LLAdd(a, b) ==
    [lin |-> a.lin + b.lin, c |-> a.c + b.c,
     Z |-> IF a.c = 0 THEN b.Z
           ELSE IF b.c = 0 \/ a.Z = b.Z THEN a.Z
           ELSE SetToBag({a.Z, b.Z})]

LLZero == [lin |-> 0, c |-> 0, Z |-> EmptyBag]

RECURSIVE LLSumTo(_, _)
LLSumTo(f, n) == IF n = 0 THEN LLZero ELSE LLAdd(LLSumTo(f, n - 1), f[n - 1])

RECURSIVE BagSumTo(_, _)
BagSumTo(f, n) == IF n = 0 THEN EmptyBag ELSE f[n - 1] (+) BagSumTo(f, n - 1)

LossOneHotInclusive(axis_index, dim_per_shard, target) ==
    LET shard_start_index == axis_index * dim_per_shard
        shard_index == [j \in 0..(dim_per_shard - 1) |-> j + shard_start_index]
    IN  [j \in 0..(dim_per_shard - 1) |->
            IF shard_index[j] = target
               \/ (j = dim_per_shard - 1 /\ shard_index[j] + 1 = target)
            THEN 1 ELSE 0]

\* lines 112-115: gt_onehot for one token
ProjectionShard_gt_onehot(axis_index, dim_per_shard, target) ==
    LET shard_start_index == axis_index * dim_per_shard
        shard_index == [j \in 0..(dim_per_shard - 1) |-> j + shard_start_index]
    IN  [j \in 0..(dim_per_shard - 1) |-> IF shard_index[j] = target THEN 1 ELSE 0]

PmaxLocalOnly(local, S) == local

\* jax.lax.pmax(v, "shard"): every shard receives the maximum
pmax(local, S) == [s \in ShardIds(S) |-> MaxTo(local, S)]

\* jax.lax.psum of sums of exponentials
psum_exp(local, S) == [s \in ShardIds(S) |-> BagSumTo(local, S)]

\* jax.lax.psum of the per-shard losses
psum_loss(local, S) == [s \in ShardIds(S) |-> LLSumTo(local, S)]

\* ProjectionShard.loss for one token, on every shard; a.logits[s] is the
\* shard's slice self.proj(x).
ProjectionShard_loss(a) ==
    LET S == a.shards
        dim_per_shard == Vocab \div S
        shard_logits == a.logits
        gt_onehot == [s \in ShardIds(S) |->
                         ProjectionShard_gt_onehot(s, dim_per_shard, a.target)]
        gmax == pmax([s \in ShardIds(S) |-> MaxTo(shard_logits[s], dim_per_shard)], S)
        shifted == [s \in ShardIds(S) |->
                      [j \in 0..(dim_per_shard - 1) |-> shard_logits[s][j] - gmax[s]]]
        sumexp == psum_exp([s \in ShardIds(S) |-> BagTo(shifted[s], dim_per_shard)], S)
        logsoftmax == [s \in ShardIds(S) |->
                         [j \in 0..(dim_per_shard - 1) |->
                             [lin |-> shifted[s][j], c |-> -1, Z |-> sumexp[s]]]]
        local == [s \in ShardIds(S) |->
                    LLScale(-1, LLSumTo([j \in 0..(dim_per_shard - 1) |->
                                            LLScale(gt_onehot[s][j], logsoftmax[s][j])],
                                        dim_per_shard))]
    IN  [kind |-> "loss", gt_onehot |-> gt_onehot, loss |-> psum_loss(local, S)]

\* ---- TransformerLayerShard and CausalTransformerShard.eval ----
\* A logit is fin - big * 10e10: big counts the mask's bias, which is beyond
\* every finite logit, so that exp of a difference with big > 0 underflows to 0.

None == [none |-> TRUE]

Ext(n) == [big |-> 0, fin |-> n]

ExtAdd(a, b) == [big |-> a.big + b.big, fin |-> a.fin + b.fin]

ExtLess(a, b) == a.big > b.big \/ (a.big = b.big /\ a.fin < b.fin)

RECURSIVE ExtMaxTo(_, _)
ExtMaxTo(row, n) ==
    IF n = 1 THEN row[1]
    ELSE LET m == ExtMaxTo(row, n - 1) IN IF ExtLess(m, row[n]) THEN row[n] ELSE m

\* lines 145-147: zeros((n, n)) - 10e10, then triu(mask, 1)
eval_mask(n) ==
    [none |-> FALSE,
     m |-> [r \in 1..n |-> [c \in 1..n |->
              IF c - r >= 1 THEN [big |-> 1, fin |-> 0] ELSE [big |-> 0, fin |-> 0]]]]

\* jax.nn.softmax along the last axis, one row
softmax_row(row) ==
    LET n == Len(row)
        m == ExtMaxTo(row, n)
        ex == [c \in 1..n |->
                 IF row[c].big - m.big > 0 THEN [zero |-> TRUE, e |-> 0]
                 ELSE [zero |-> FALSE, e |-> row[c].fin - m.fin]]
        live == {c \in 1..n : ~ex[c].zero}
        den == [e \in {ex[c].e : c \in live} |->
                  Cardinality({c \in live : ex[c].e = e})]
    IN  [c \in 1..n |-> [zero |-> ex[c].zero, e |-> ex[c].e, den |-> den]]

LayerAddsMaskWhenGiven(logits, mask) ==
    LET n == Len(logits)
        attention_logits == [r \in 1..n |-> [c \in 1..n |-> Ext(logits[r][c])]]
        masked == IF ~mask.none
                  THEN [r \in 1..n |-> [c \in 1..n |->
                           ExtAdd(attention_logits[r][c], mask.m[r][c])]]
                  ELSE attention_logits
    IN  [outcome |-> "ok",
         attention_weights |-> [r \in 1..n |-> softmax_row(masked[r])]]

\* TransformerLayerShard.__call__(x, mask) for one head; logits are the
\* scaled q.k products of lines 62-71.  Line 73 tests `mask is None` and line
\* 74 then adds that None to an array, which raises TypeError; with a mask
\* given, line 74 is skipped.  The call's result is kept as the attention
\* weights of line 76: lines 77-85 are a function of them and change no state.
TransformerLayerShard_call(logits, mask) ==
    LET n == Len(logits)
        attention_logits == [r \in 1..n |-> [c \in 1..n |-> Ext(logits[r][c])]]
    IN  IF mask.none
        THEN [outcome |-> "TypeError"]
        ELSE [outcome |-> "ok",
              attention_weights |-> [r \in 1..n |-> softmax_row(attention_logits[r])]]

\* ---- the calls ----

Rows == {<<1, 0>>, <<2, 1>>}
Biases == {<<0, 0>>, <<1, 2>>}
LogitVals == {0, 1, 2}
AttnVals == {0, 1}

EmbedInputs ==
    UNION {[kind : {"embed"}, shards : {S},
            w : [ShardIds(S) -> [0..((Vocab \div S) - 1) -> Rows]],
            b : [ShardIds(S) -> Biases],
            x : {<<t>> : t \in 0..(Vocab - 1)}] : S \in ShardCounts}

LossInputs ==
    UNION {[kind : {"loss"}, shards : {S},
            logits : [ShardIds(S) -> [0..((Vocab \div S) - 1) -> LogitVals]],
            target : 0..(Vocab - 1)] : S \in ShardCounts}

BlockInputs ==
    UNION {[kind : {"block"}, logits : [1..n -> [1..n -> AttnVals]]] : n \in 1..MaxSeq}

NoTraining ==
    /\ tpu_state = [kind |-> "none"]
    /\ cpu_state = [kind |-> "none"]
    /\ last_call = [op |-> "none", n |-> 0]
    /\ pending = <<>>
    /\ base = [kind |-> "none"]
    /\ cpu_hist = {}
    /\ trains = 0
    /\ calls = 0

LayersInit ==
    /\ arg \in EmbedInputs \cup LossInputs \cup BlockInputs
    /\ res = [kind |-> "none"]
    /\ NoTraining
    /\ NoDriver

LayerFrame ==
    UNCHANGED <<tpu_state, cpu_state, last_call, pending, base, cpu_hist,
                trains, calls, pc, i, corpus, arg>>

EmbedCall ==
    /\ arg.kind = "embed"
    /\ res.kind = "none"
    /\ res' = EmbeddingShard_call(arg)
    /\ LayerFrame

LossCall ==
    /\ arg.kind = "loss"
    /\ res.kind = "none"
    /\ res' = ProjectionShard_loss(arg)
    /\ LayerFrame

\* CausalTransformerShard.eval, line 150: l(x, mask) with the causal mask
EvalCallsBlock ==
    /\ arg.kind = "block"
    /\ res.kind = "none"
    /\ res' = [kind |-> "block", caller |-> "eval", mask_given |-> TRUE,
               ret |-> TransformerLayerShard_call(arg.logits, eval_mask(Len(arg.logits)))]
    /\ LayerFrame

\* a block called with the default mask=None
BlockCallNoMask ==
    /\ arg.kind = "block"
    /\ res.kind = "none"
    /\ res' = [kind |-> "block", caller |-> "direct", mask_given |-> FALSE,
               ret |-> TransformerLayerShard_call(arg.logits, None)]
    /\ LayerFrame

LayersNext == EmbedCall \/ LossCall \/ EvalCallsBlock \/ BlockCallNoMask

SpecLayers == LayersInit /\ [][LayersNext]_vars

-----------------------------------------------------------------------------
(* Properties of the sharded layers                                        *)

EmbedDone == arg.kind = "embed" /\ res.kind = "embed"
LossDone == arg.kind = "loss" /\ res.kind = "loss"
BlockDone == arg.kind = "block" /\ res.kind = "block"

\* The unsharded table: the shard-local tables concatenated in shard order.
UnshardedRow(a, t) ==
    LET dps == Vocab \div a.shards IN a.w[t \div dps][t % dps]

\* C5 as stated: the embedding's output after the average-reduce is the row
\* of the unsharded table for the token id.
EmbedEqualsUnshardedLookup ==
    EmbedDone =>
        \A t \in 1..Len(arg.x) : \A d \in 1..Len(res.out[t]) :
            res.out[t][d] = RInt(UnshardedRow(arg, arg.x[t])[d])

\* C5 as amended: the output is the unsharded row plus the sum of the
\* shards' Linear biases, divided by the shard count.
EmbedIsMeanOfRowAndBiases ==
    EmbedDone =>
        \A t \in 1..Len(arg.x) : \A d \in 1..Len(res.out[t]) :
            res.out[t][d] =
                RDivInt(RInt(UnshardedRow(arg, arg.x[t])[d]
                             + SumTo([s \in ShardIds(arg.shards) |-> arg.b[s][d]],
                                     arg.shards)),
                        arg.shards)

WitnessShardedEmbedding ==
    /\ EmbedDone
    /\ arg.shards >= 2
    /\ arg.x[1] >= Vocab \div arg.shards
    /\ \E s \in ShardIds(arg.shards) : arg.b[s] # <<0, 0>>
    /\ res.out[1] # [d \in 1..2 |-> RInt(UnshardedRow(arg, arg.x[1])[d])]

\* The indicator row of token t is nonzero on exactly the shard t div
\* rows_per_shard, there with its single 1 at t mod rows_per_shard.
RoutesToOwner(S, onehot, t) ==
    LET dps == Vocab \div S
    IN  \A s \in ShardIds(S) : \A j \in 0..(dps - 1) :
            onehot[s][j] = IF s = t \div dps /\ j = t % dps THEN 1 ELSE 0

\* C6: every token id routes to exactly one shard, in the embedding's input
\* one-hot and in the loss's partial one-hot target.
TokenRoutesToOneShard ==
    /\ EmbedDone =>
          \A t \in 1..Len(arg.x) :
              RoutesToOwner(arg.shards,
                            [s \in ShardIds(arg.shards) |-> res.onehot[s][t]], arg.x[t])
    /\ LossDone => RoutesToOwner(arg.shards, res.gt_onehot, arg.target)

\* a target on the first row of a shard other than shard 0
WitnessBoundaryToken ==
    /\ LossDone
    /\ arg.shards >= 2
    /\ Vocab \div arg.shards >= 2
    /\ arg.target = Vocab \div arg.shards
    /\ res.gt_onehot[1][0] = 1

\* lin + log(Z) = log(Z with every exponent raised by lin)
LLCanon(v) ==
    IF v.c = 1
    THEN [lin |-> 0, c |-> 1,
          Z |-> [e \in {x + v.lin : x \in DOMAIN v.Z} |-> v.Z[e - v.lin]]]
    ELSE v

\* Stable log-softmax cross-entropy on one device over the concatenated logits.
SingleDeviceLoss(a) ==
    LET dps == Vocab \div a.shards
        full == [t \in 0..(Vocab - 1) |-> a.logits[t \div dps][t % dps]]
        m == MaxTo(full, Vocab)
        shifted == [t \in 0..(Vocab - 1) |-> full[t] - m]
    IN  [lin |-> -shifted[a.target], c |-> 1, Z |-> BagTo(shifted, Vocab)]

\* C7: the three-reduce loss is the same on every shard and equals the
\* single-device stable log-softmax cross-entropy.
LossEqualsSingleDevice ==
    LossDone =>
        \A s \in ShardIds(arg.shards) :
            LLCanon(res.loss[s]) = LLCanon(SingleDeviceLoss(arg))

\* the shards' local maxima differ and the target is not on the shard that
\* holds the global maximum
WitnessLossAcrossShards ==
    /\ LossDone
    /\ arg.shards = 2
    /\ MaxTo(arg.logits[0], Vocab \div 2) > MaxTo(arg.logits[1], Vocab \div 2)
    /\ arg.target >= Vocab \div 2
    /\ res.loss[0].c = 1

\* C2: in every block that eval invokes, the causal bias reaches the softmax:
\* the weight from position r to every later position is zero and row r sums
\* to 1 over the positions up to r.
EvalAttentionIsCausal ==
    (BlockDone /\ res.caller = "eval") =>
        /\ res.ret.outcome = "ok"
        /\ \A r \in 1..Len(arg.logits) :
              LET w == res.ret.attention_weights[r]
                  upto == {c \in 1..r : ~w[c].zero}
              IN  /\ \A c \in (r + 1)..Len(arg.logits) : w[c].zero
                  /\ w[r].den = [e \in {w[c].e : c \in upto} |->
                                    Cardinality({c \in upto : w[c].e = e})]

\* C3: a block called without a mask ends in an error and returns no
\* activations.
NoMaskIsAnError ==
    (BlockDone /\ ~res.mask_given) =>
        /\ res.ret.outcome # "ok"
        /\ "attention_weights" \notin DOMAIN res.ret

WitnessNoMaskCall ==
    /\ BlockDone
    /\ ~res.mask_given
    /\ res.caller = "direct"
    /\ Len(arg.logits) >= 2
    /\ res.ret.outcome = "TypeError"

====
